---- MODULE Spec2Model ----
\* RFM / RFE analysis (selnekovic/rfm_analysis): the data pipeline of
\* src/_import.py (prepare_rfm_columns) and src/_helpers.py
\* (remove_outliers_percentile, rfm_transformation, rfm_scoring,
\* map_user_segment), and the Streamlit application around it
\* (src/_import.py sidebar_import, src/main.py).
\*
\* Every pipeline stage is a function from a table to a table (or an error).
\* Each stage is an operator computed the way the code computes it, and has a
\* specification of its own: Init draws the stage's arguments from bounded
\* sets, the stage's action applies it and stores what it returns or raises.
\* The application is a state machine over st.session_state: one action per
\* user event, each running the script of main.py from top to bottom.
EXTENDS Integers, Sequences, FiniteSets, TLC

VARIABLES
    pc,                \* position: "call" (arguments bound) or "done" (returned / raised)
    fn,                \* the function being run
    df,                \* the table argument `df`
    row,               \* the argument `row` of map_user_segment
    lower_percentile,  \* argument of remove_outliers_percentile, in hundredths
    upper_percentile,  \* argument of remove_outliers_percentile, in hundredths
    ret,               \* what the call returned or raised
    session_state,     \* st.session_state of the browser session
    uploaded,          \* the file held by the st.file_uploader widget
    sample_file,       \* what sample_data.csv holds on disk
    run                \* what the last script run did (path taken, tables shown)

vars == <<pc, fn, df, row, lower_percentile, upper_percentile, ret,
          session_state, uploaded, sample_file, run>>

\* The application's variables, and their value where only a function is run.
app_vars == <<session_state, uploaded, sample_file, run>>

NoApp == session_state = <<>> /\ uploaded = <<>> /\ sample_file = <<>> /\ run = <<>>

-----------------------------------------------------------------------------
\* Values shared by the stages.

\* A nullable cell: <<>> is null (None), <<v>> holds v.
None == <<>>

Some(v) == <<v>>

\* No argument / nothing returned yet.
NoValue == [kind |-> "none"]

Returned(v) == [kind |-> "ok", value |-> v]

Max(S) == CHOOSE x \in S : \A y \in S : y <= x

Range(s) == {s[i] : i \in 1..Len(s)}

\* All sequences over S of length 0..n.
SeqsUpTo(S, n) == UNION {[1..k -> S] : k \in 0..n}

-----------------------------------------------------------------------------
\* map_user_segment (src/_helpers.py:140-180).
\*
\* A row is a function from column names to tagged values: an integer
\* (t = "int", the number in i) or a string (t = "str", its characters in s).

IntCell(n) == [t |-> "int", i |-> n, s |-> <<>>]

StrCell(str) == [t |-> "str", i |-> 0, s |-> str]

Digits == <<"0", "1", "2", "3", "4", "5", "6", "7", "8", "9">>

IsDigit(c) == \E i \in 1..10 : Digits[i] = c

DigitValue(c) == (CHOOSE i \in 1..10 : Digits[i] = c) - 1

AllDigits(s) == \A i \in 1..Len(s) : IsDigit(s[i])

\* The number a non-empty string of decimal digits denotes.
RECURSIVE DigitsToNat(_)
DigitsToNat(s) ==
    IF s = <<>> THEN 0
    ELSE 10 * DigitsToNat(SubSeq(s, 1, Len(s) - 1)) + DigitValue(s[Len(s)])

\* int(x): an integer is itself, a string of decimal digits is parsed, any
\* other string raises ValueError.
PyIntRaises(cell) == cell.t = "str" /\ (cell.s = <<>> \/ ~AllDigits(cell.s))

PyInt(cell) == IF cell.t = "int" THEN cell.i ELSE DigitsToNat(cell.s)

ScoreKeys == {"r_score", "f_score", "m_score"}

SegmentOf_BoundarySlip(r, f, m) ==
    LET fm_index == f + m IN
    IF r >= 4 THEN
        IF fm_index > 8 THEN "Champions"
        ELSE IF fm_index >= 5 THEN "Active"
        ELSE "Newcomers"
    ELSE IF r = 3 THEN
        IF fm_index > 8 THEN "Fading Loyalists"
        ELSE IF fm_index >= 5 THEN "Inactive"
        ELSE "At Risk (Low Value)"
    ELSE
        IF fm_index > 8 THEN "Can't Lose Them"
        ELSE IF fm_index >= 5 THEN "Reactivation Pool"
        ELSE "Lost Casual"

\* The branch tree on r and fm_index = f + m.
SegmentOf(r, f, m) ==
    LET fm_index == f + m IN
    IF r >= 4 THEN
        IF fm_index >= 8 THEN "Champions"
        ELSE IF fm_index >= 5 THEN "Active"
        ELSE "Newcomers"
    ELSE IF r = 3 THEN
        IF fm_index >= 8 THEN "Fading Loyalists"
        ELSE IF fm_index >= 5 THEN "Inactive"
        ELSE "At Risk (Low Value)"
    ELSE
        IF fm_index >= 8 THEN "Can't Lose Them"
        ELSE IF fm_index >= 5 THEN "Reactivation Pool"
        ELSE "Lost Casual"

\* try: int(row[...]) three times; except (ValueError, KeyError): "Invalid Score".
map_user_segment(rw) ==
    IF \E k \in ScoreKeys : k \notin DOMAIN rw \/ PyIntRaises(rw[k])
    THEN "Invalid Score"
    ELSE SegmentOf(PyInt(rw["r_score"]), PyInt(rw["f_score"]), PyInt(rw["m_score"]))

\* The keys of SEGMENT_COLOR_MAP (src/_visuals.py:110-120).
SEGMENT_COLOR_MAP_KEYS ==
    {"Champions", "Active", "Newcomers",
     "Fading Loyalists", "Inactive", "At Risk (Low Value)",
     "Can't Lose Them", "Reactivation Pool", "Lost Casual"}

\* Scores run from 1 to MaxScore.
MaxScore == 5

ScoreRow(r, f, m) ==
    [k \in ScoreKeys |->
        IF k = "r_score" THEN r ELSE IF k = "f_score" THEN f ELSE m]

\* Rows as rfm_scoring produces them (integer scores), rows read back from
\* text (digit strings), and malformed rows: a key missing, a non-numeric string.
ValidScoreRows ==
    {ScoreRow(IntCell(r), IntCell(f), IntCell(m)) : r, f, m \in 1..MaxScore}

TextScoreRows ==
    {ScoreRow(StrCell(<<Digits[r + 1]>>), IntCell(f), StrCell(<<Digits[m + 1]>>)) :
        r, f, m \in {1, MaxScore}}

MalformedScoreRows ==
    {[k \in ScoreKeys \ {gone} |-> IntCell(3)] : gone \in ScoreKeys}
    \cup {ScoreRow(StrCell(<<"x">>), IntCell(5), IntCell(5)),
          ScoreRow(IntCell(5), StrCell(<<>>), IntCell(5)),
          ScoreRow(IntCell(5), IntCell(5), StrCell(<<"4", ".", "0">>))}

InitSegment ==
    /\ pc = "call"
    /\ fn = "map_user_segment"
    /\ row \in ValidScoreRows \cup TextScoreRows \cup MalformedScoreRows
    /\ df = NoValue
    /\ lower_percentile = 0
    /\ upper_percentile = 0
    /\ ret = NoValue
    /\ NoApp

MapUserSegment ==
    /\ pc = "call"
    /\ fn = "map_user_segment"
    /\ ret' = Returned(map_user_segment(row))
    /\ pc' = "done"
    /\ UNCHANGED <<fn, df, row, lower_percentile, upper_percentile, app_vars>>

NextSegment == MapUserSegment

SpecSegment == InitSegment /\ [][NextSegment]_vars

\* The decision table of the segment classifier, cell by cell.
TableLabel(r, fm) ==
    LET band == IF r >= 4 THEN 1 ELSE IF r = 3 THEN 2 ELSE 3
        col == IF fm >= 8 THEN 1 ELSE IF fm >= 5 THEN 2 ELSE 3
        table == <<
            <<"Champions", "Active", "Newcomers">>,
            <<"Fading Loyalists", "Inactive", "At Risk (Low Value)">>,
            <<"Can't Lose Them", "Reactivation Pool", "Lost Casual">> >>
    IN table[band][col]

RowScoresValid ==
    /\ DOMAIN row = ScoreKeys
    /\ \A k \in ScoreKeys : row[k].t = "int" /\ row[k].i \in 1..5

\* C1: for every row whose three scores are integers in 1..5, map_user_segment
\* returns the label of the decision table for (r_score, f_score + m_score);
\* the label is one of the 9 segment labels and never "Invalid Score".
C1_SegmentTable ==
    (pc = "done" /\ fn = "map_user_segment" /\ RowScoresValid) =>
        /\ ret.value = TableLabel(row["r_score"].i, row["f_score"].i + row["m_score"].i)
        /\ ret.value \in SEGMENT_COLOR_MAP_KEYS
        /\ ret.value # "Invalid Score"

\* C1 witness: a valid row on the fm_index = 8 boundary has been classified.
C1_Witness ==
    /\ pc = "done" /\ fn = "map_user_segment" /\ RowScoresValid
    /\ row["r_score"].i = 3
    /\ row["f_score"].i + row["m_score"].i = 8
    /\ ret.value = "Fading Loyalists"

-----------------------------------------------------------------------------
\* Column statistics of polars, as the helpers use them.

Min(S) == CHOOSE x \in S : \A y \in S : x <= y

\* The values of one column of a table (a sequence of rows).
Column(table, c) == [i \in 1..Len(table) |-> table[i][c]]

RECURSIVE SortAsc(_)
SortAsc(s) ==
    IF s = <<>> THEN <<>>
    ELSE LET m == Min(Range(s))
             i == CHOOSE j \in 1..Len(s) : s[j] = m
         IN <<m>> \o SortAsc(SubSeq(s, 1, i - 1) \o SubSeq(s, i + 1, Len(s)))

\* float.round(): to the nearest integer, halves away from zero (num, den >= 0).
RoundHalfAway(num, den) == (2 * num + den) \div (2 * den)

\* Expr.quantile(q) with q = num / den and the default interpolation
\* "nearest": the order statistic at index round((n - 1) * q) of the sorted
\* non-null values; null for an empty column. The quantiles the helpers ask
\* for (fifths, hundredths) never put (n - 1) * q within rounding error of a
\* half for the lengths modelled, so the exact quotient decides as the float does.
Quantile(col, num, den) ==
    IF col = <<>> THEN None
    ELSE Some(SortAsc(col)[RoundHalfAway((Len(col) - 1) * num, den) + 1])

\* DataFrame.with_columns: the new columns replace or extend the row's.
WithColumns(r, new) == new @@ r

-----------------------------------------------------------------------------
\* rfm_scoring (src/_helpers.py:72-137).

\* qs = [0.2, 0.4, 0.6, 0.8], in fifths.
qs == <<1, 2, 3, 4>>

\* _thresholds(column): the four quantiles of the column over the whole table.
_thresholds(table, column) ==
    [k \in 1..4 |-> Quantile(Column(table, column), qs[k], 5)]

\* A comparison with a null threshold is null, and `when` treats null as false.
Le(v, t) == t # None /\ v <= t[1]

_score_expr_Strict(v, thresholds, higher_is_better) ==
    IF higher_is_better THEN
        IF v < thresholds[1][1] THEN 1
        ELSE IF v < thresholds[2][1] THEN 2
        ELSE IF v < thresholds[3][1] THEN 3
        ELSE IF v < thresholds[4][1] THEN 4
        ELSE 5
    ELSE
        IF v < thresholds[1][1] THEN 5
        ELSE IF v < thresholds[2][1] THEN 4
        ELSE IF v < thresholds[3][1] THEN 3
        ELSE IF v < thresholds[4][1] THEN 2
        ELSE 1

\* _score_expr(col, thresholds, higher_is_better), for one value of the column.
_score_expr(v, thresholds, higher_is_better) ==
    IF higher_is_better THEN
        IF Le(v, thresholds[1]) THEN 1
        ELSE IF Le(v, thresholds[2]) THEN 2
        ELSE IF Le(v, thresholds[3]) THEN 3
        ELSE IF Le(v, thresholds[4]) THEN 4
        ELSE 5
    ELSE
        IF Le(v, thresholds[1]) THEN 5
        ELSE IF Le(v, thresholds[2]) THEN 4
        ELSE IF Le(v, thresholds[3]) THEN 3
        ELSE IF Le(v, thresholds[4]) THEN 2
        ELSE 1

\* cast(pl.Utf8) of a non-negative integer: its decimal digits.
RECURSIVE IntToStr(_)
IntToStr(n) ==
    IF n < 10 THEN <<Digits[n + 1]>>
    ELSE IntToStr(n \div 10) \o <<Digits[(n % 10) + 1]>>

\* pl.concat_str of a list of strings.
RECURSIVE concat_str(_)
concat_str(parts) ==
    IF parts = <<>> THEN <<>> ELSE Head(parts) \o concat_str(Tail(parts))

\* The first with_columns of rfm_scoring: all three metrics are scored with
\* higher_is_better=True (lines 123-125).
ScoreColumns(r, r_th, f_th, m_th) ==
    [r_score |-> _score_expr(r.recency, r_th, TRUE),
     f_score |-> _score_expr(r.frequency, f_th, TRUE),
     m_score |-> _score_expr(r.monetary, m_th, TRUE)]

TotalColumns_Swapped(r) ==
    [rfm_total |-> r.r_score + r.f_score + r.m_score,
     rfm_string |-> concat_str(<<IntToStr(r.f_score), IntToStr(r.r_score),
                                 IntToStr(r.m_score)>>)]

\* The second with_columns: rfm_total and rfm_string (lines 127-134).
TotalColumns(r) ==
    [rfm_total |-> r.r_score + r.f_score + r.m_score,
     rfm_string |-> concat_str(<<IntToStr(r.r_score), IntToStr(r.f_score),
                                 IntToStr(r.m_score)>>)]

\* The thresholds are computed once, before any row is scored (lines 95-97).
rfm_scoring(table) ==
    LET scored1(r, r_th, f_th, m_th) == WithColumns(r, ScoreColumns(r, r_th, f_th, m_th))
        scored2(r) == WithColumns(r, TotalColumns(r))
        results ==
            {[i \in 1..Len(table) |-> scored2(scored1(table[i], r_th, f_th, m_th))] :
                r_th \in {_thresholds(table, "recency")},
                f_th \in {_thresholds(table, "frequency")},
                m_th \in {_thresholds(table, "monetary")}}
    IN CHOOSE scored \in results : TRUE

\* Most users in a table given to rfm_scoring.
MaxUsers == 4

\* The metric values the tables are drawn from: days of recency, numbers of
\* transactions, sums of values.
RecencyValues == {0, 1, 3}

FrequencyValues == {1, 2}

MonetaryValues == {5, 20}

Metrics ==
    [recency : RecencyValues, frequency : FrequencyValues, monetary : MonetaryValues]

\* One row per user: user i is in row i.
InitScoring ==
    /\ pc = "call"
    /\ fn = "rfm_scoring"
    /\ \E s \in SeqsUpTo(Metrics, MaxUsers) :
           df = [i \in 1..Len(s) |-> WithColumns(s[i], [user_id |-> i])]
    /\ row = NoValue
    /\ lower_percentile = 0
    /\ upper_percentile = 0
    /\ ret = NoValue
    /\ NoApp

RfmScoring ==
    /\ pc = "call"
    /\ fn = "rfm_scoring"
    /\ ret' = Returned(rfm_scoring(df))
    /\ pc' = "done"
    /\ UNCHANGED <<fn, df, row, lower_percentile, upper_percentile, app_vars>>

NextScoring == RfmScoring

SpecScoring == InitScoring /\ [][NextScoring]_vars

ScoringDone == pc = "done" /\ fn = "rfm_scoring"

\* The bucket of the inclusive ascending threshold rule, by counting: one more
\* than the number of thresholds strictly below the value.
Bucket(v, th) == 1 + Cardinality({k \in 1..4 : th[k][1] < v})

\* C2: the recency score is the reversed bucket, r_score = 6 - bucket: a user
\* with more days of recency never has the higher r_score, and a user whose
\* recency is at most the 0.2 threshold has r_score 5.
C2_RecencyReversed ==
    ScoringDone =>
        \A th \in {_thresholds(df, "recency")} :
        LET scored == ret.value
        IN /\ \A i \in 1..Len(df) :
                  /\ scored[i].r_score = 6 - Bucket(df[i].recency, th)
                  /\ (df[i].recency <= th[1][1] => scored[i].r_score = 5)
           /\ \A i, j \in 1..Len(df) :
                  df[i].recency > df[j].recency => scored[i].r_score <= scored[j].r_score

\* C3: the frequency and monetary scores follow the inclusive ascending
\* threshold rule over the run's thresholds: score k exactly when the value is
\* at most t_k and above t_(k-1), 5 above t4; a value equal to a threshold gets
\* the lower-numbered bucket; a larger value never gets a smaller score.
C3_ThresholdScores ==
    ScoringDone =>
        \A c \in {"frequency", "monetary"} : \A th \in {_thresholds(df, c)} :
            LET sc == IF c = "frequency" THEN "f_score" ELSE "m_score"
                scored == ret.value
            IN /\ \A i \in 1..Len(df) :
                      /\ scored[i][sc] = Bucket(df[i][c], th)
                      /\ \A k \in 1..4 : df[i][c] = th[k][1] => scored[i][sc] <= k
               /\ \A i, j \in 1..Len(df) :
                      df[i][c] <= df[j][c] => scored[i][sc] <= scored[j][sc]

\* C3 witness: a scored table in which frequency reaches the top bucket and a
\* monetary value tied with both the third and the fourth threshold sits in
\* bucket 3.
C3_Witness ==
    /\ ScoringDone
    /\ \E i \in 1..Len(df) : ret.value[i].f_score = 5
    /\ \E i \in 1..Len(df) :
           /\ df[i].monetary = _thresholds(df, "monetary")[3][1]
           /\ df[i].monetary = _thresholds(df, "monetary")[4][1]
           /\ df[i].monetary > _thresholds(df, "monetary")[2][1]
           /\ ret.value[i].m_score = 3

\* C4: every scored row has its three scores in 1..5, rfm_total their sum (in
\* 3..15) and rfm_string the three score digits in the order R, F, M; the
\* recency, frequency and monetary columns, the user ids and the number of rows
\* are those of the input table.
C4_ScoredRows ==
    ScoringDone =>
        LET scored == ret.value IN
        /\ Len(scored) = Len(df)
        /\ \A i \in 1..Len(df) :
               /\ scored[i].r_score \in 1..5
               /\ scored[i].f_score \in 1..5
               /\ scored[i].m_score \in 1..5
               /\ scored[i].rfm_total =
                      scored[i].r_score + scored[i].f_score + scored[i].m_score
               /\ scored[i].rfm_total \in 3..15
               /\ scored[i].rfm_string =
                      <<Digits[scored[i].r_score + 1], Digits[scored[i].f_score + 1],
                        Digits[scored[i].m_score + 1]>>
               /\ scored[i].user_id = df[i].user_id
               /\ scored[i].recency = df[i].recency
               /\ scored[i].frequency = df[i].frequency
               /\ scored[i].monetary = df[i].monetary

\* C4 witness: a scored table with a row whose three scores all differ.
C4_Witness ==
    /\ ScoringDone
    /\ \E i \in 1..Len(df) :
           /\ ret.value[i].rfm_string = <<"3", "1", "5">>
           /\ ret.value[i].rfm_total = 9

-----------------------------------------------------------------------------
\* rfm_transformation (src/_helpers.py:32-69).
\*
\* A normalized table is a sequence of rows [user_id, date, value]; a date
\* (pl.Date) is its number of days since 1970-01-01.

\* Milliseconds in a day: Date - Date is a Duration in milliseconds, and
\* dt.total_days() divides it back.
MsPerDay == 86400000

DateDiff(a, b) == (a - b) * MsPerDay

total_days(duration) == duration \div MsPerDay

RECURSIVE SumSeq(_)
SumSeq(s) == IF s = <<>> THEN 0 ELSE Head(s) + SumSeq(Tail(s))

\* The rows of one group of group_by('user_id').
Group(table, u) == SelectSeq(table, LAMBDA r : r.user_id = u)

\* analysis_date = df.select(pl.col("date").max()).item(): null for no rows.
analysis_date(table) ==
    IF table = <<>> THEN None ELSE Some(Max(Range(Column(table, "date"))))

Agg_DistinctDays(table, u) ==
    LET g == Group(table, u) IN
    [user_id |-> u,
     recency |-> total_days(DateDiff(analysis_date(table)[1], Max(Range(Column(g, "date"))))),
     frequency |-> Cardinality(Range(Column(g, "date"))),
     monetary |-> SumSeq(Column(g, "value"))]

\* The three aggregations of one group (lines 61-65).
Agg(table, u) ==
    LET g == Group(table, u) IN
    [user_id |-> u,
     recency |-> total_days(DateDiff(analysis_date(table)[1], Max(Range(Column(g, "date"))))),
     frequency |-> Len(g),
     monetary |-> SumSeq(Column(g, "value"))]

\* group_by without maintain_order returns the groups in an order polars does
\* not fix: `order` is one ordering of the distinct user ids.
GroupOrders(table) ==
    LET users == Range(Column(table, "user_id"))
    IN {o \in [1..Cardinality(users) -> users] : Range(o) = users}

rfm_transformation(table, order) ==
    [k \in 1..Len(order) |-> Agg(table, order[k])]

\* Most rows in a table given to rfm_transformation.
MaxTransactions == 3

UserIds == {"u1", "u2"}

\* 2024-01-01, 2024-01-05, 2024-01-10.
TransactionDates == {19723, 19727, 19732}

TransactionValues == {5, 10, 20}

Transactions == [user_id : UserIds, date : TransactionDates, value : TransactionValues]

InitTransformation ==
    /\ pc = "call"
    /\ fn = "rfm_transformation"
    /\ df \in SeqsUpTo(Transactions, MaxTransactions)
    /\ row = NoValue
    /\ lower_percentile = 0
    /\ upper_percentile = 0
    /\ ret = NoValue
    /\ NoApp

RfmTransformation ==
    /\ pc = "call"
    /\ fn = "rfm_transformation"
    /\ \E order \in GroupOrders(df) : ret' = Returned(rfm_transformation(df, order))
    /\ pc' = "done"
    /\ UNCHANGED <<fn, df, row, lower_percentile, upper_percentile, app_vars>>

NextTransformation == RfmTransformation

SpecTransformation == InitTransformation /\ [][NextTransformation]_vars

TransformationDone == pc = "done" /\ fn = "rfm_transformation"

\* The indices of the rows of user u.
RowsOf(u) == {i \in 1..Len(df) : df[i].user_id = u}

RECURSIVE SumValues(_)
SumValues(I) ==
    IF I = {} THEN 0
    ELSE LET i == CHOOSE j \in I : TRUE IN df[i].value + SumValues(I \ {i})

\* C5: for a non-empty normalized table rfm_transformation returns exactly one
\* row per distinct user_id; its recency is the latest date of the whole table
\* minus the user's latest date in days (>= 0, and 0 for a user with a row on
\* the table's latest date), its frequency the number of the user's rows, its
\* monetary the sum of the user's values.
C5_Aggregation ==
    (TransformationDone /\ df # <<>>) =>
        LET rfm_df == ret.value
            users == {df[i].user_id : i \in 1..Len(df)}
            latest == Max({df[i].date : i \in 1..Len(df)})
        IN /\ Len(rfm_df) = Cardinality(users)
           /\ {rfm_df[k].user_id : k \in 1..Len(rfm_df)} = users
           /\ \A k \in 1..Len(rfm_df) :
                  LET u == rfm_df[k].user_id IN
                  /\ rfm_df[k].recency = latest - Max({df[i].date : i \in RowsOf(u)})
                  /\ rfm_df[k].recency >= 0
                  /\ ((\E i \in RowsOf(u) : df[i].date = latest) => rfm_df[k].recency = 0)
                  /\ rfm_df[k].frequency = Cardinality(RowsOf(u))
                  /\ rfm_df[k].monetary = SumValues(RowsOf(u))

\* C5 witness: two users aggregated, one with two rows on the same day (the
\* latest), the other five days behind.
C5_Witness ==
    /\ TransformationDone
    /\ Len(df) = 3
    /\ \E k, l \in 1..Len(ret.value) :
           /\ ret.value[k] = [user_id |-> "u1", recency |-> 0, frequency |-> 2, monetary |-> 30]
           /\ ret.value[l] = [user_id |-> "u2", recency |-> 5, frequency |-> 1, monetary |-> 5]
           /\ \A i \in RowsOf("u1") : df[i].date = 19732

-----------------------------------------------------------------------------
\* remove_outliers_percentile (src/_helpers.py:5-29).
\*
\* lower_percentile and upper_percentile are held in hundredths (0.01 is 1).

InBounds_Exclusive(v, lower_bound, upper_bound) ==
    /\ lower_bound # None /\ upper_bound # None
    /\ v > lower_bound[1] /\ v < upper_bound[1]

\* (pl.col(column) >= lower_bound) & (pl.col(column) <= upper_bound); a
\* comparison with a null bound is null, and filter drops the row.
InBounds(v, lower_bound, upper_bound) ==
    /\ lower_bound # None /\ upper_bound # None
    /\ v >= lower_bound[1] /\ v <= upper_bound[1]

remove_outliers_percentile(table, column, lower, upper) ==
    LET lower_bound == Quantile(Column(table, column), lower, 100)
        upper_bound == Quantile(Column(table, column), upper, 100)
    IN SelectSeq(table, LAMBDA r : InBounds(r[column], lower_bound, upper_bound))

\* Most rows in a table given to remove_outliers_percentile.
MaxOutlierRows == 4

OutlierValues == {1, 5, 10, 50}

OutlierRows == [user_id : UserIds, date : {19723}, value : OutlierValues]

\* The defaults 0.01 / 0.99 and the quartiles.
LowerPercentiles == {1, 25}

UpperPercentiles == {75, 99}

InitOutliers ==
    /\ pc = "call"
    /\ fn = "remove_outliers_percentile"
    /\ df \in SeqsUpTo(OutlierRows, MaxOutlierRows)
    /\ row = NoValue
    /\ lower_percentile \in LowerPercentiles
    /\ upper_percentile \in UpperPercentiles
    /\ ret = NoValue
    /\ NoApp

RemoveOutliersPercentile ==
    /\ pc = "call"
    /\ fn = "remove_outliers_percentile"
    /\ ret' = Returned(remove_outliers_percentile(df, "value", lower_percentile,
                                                  upper_percentile))
    /\ pc' = "done"
    /\ UNCHANGED <<fn, df, row, lower_percentile, upper_percentile, app_vars>>

NextOutliers == RemoveOutliersPercentile

SpecOutliers == InitOutliers /\ [][NextOutliers]_vars

OutliersDone == pc = "done" /\ fn = "remove_outliers_percentile"

\* The two bounds, each computed over the full input column.
LowerBound == Quantile(Column(df, "value"), lower_percentile, 100)

UpperBound == Quantile(Column(df, "value"), upper_percentile, 100)

\* The indices of the input rows whose value lies within [lb, ub], ends included.
Kept(lb, ub) == {i \in 1..Len(df) : lb <= df[i].value /\ df[i].value <= ub}

\* The j-th smallest element of a set of indices.
Nth(I, j) == CHOOSE i \in I : Cardinality({k \in I : k < i}) = j - 1

\* C6: remove_outliers_percentile returns exactly the input rows whose value v
\* satisfies lower_bound <= v <= upper_bound, the bounds being the two
\* quantiles of the full column: a row on a bound is kept (when the bounds are
\* not crossed), a row strictly outside is removed, the kept rows are unchanged
\* and in their original order, and no row is added; an empty table gives an
\* empty table.
C6_OutlierFilter ==
    /\ (OutliersDone /\ df = <<>>) => ret.value = <<>>
    /\ (OutliersDone /\ df # <<>>) =>
        \A lb \in {LowerBound[1]} : \A ub \in {UpperBound[1]} : \A K \in {Kept(lb, ub)} :
            /\ Len(ret.value) = Cardinality(K)
            /\ \A j \in 1..Len(ret.value) : ret.value[j] = df[Nth(K, j)]
            /\ \A i \in 1..Len(df) :
                   /\ ((df[i].value = lb \/ df[i].value = ub) /\ lb <= ub)
                          => \E j \in 1..Len(ret.value) : ret.value[j] = df[i]
                   /\ (df[i].value < lb \/ df[i].value > ub)
                          => \A j \in 1..Len(ret.value) : ret.value[j].value # df[i].value

\* C6 witness: the filter kept rows on both bounds, removed a row below the
\* lower bound and a row above the upper bound.
C6_Witness ==
    /\ OutliersDone
    /\ Len(ret.value) = 2
    /\ \E i \in 1..Len(df) : df[i].value < LowerBound[1]
    /\ \E i \in 1..Len(df) : df[i].value > UpperBound[1]
    /\ \E j \in 1..Len(ret.value) : ret.value[j].value = LowerBound[1]
    /\ \E j \in 1..Len(ret.value) : ret.value[j].value = UpperBound[1]
    /\ LowerBound # UpperBound

-----------------------------------------------------------------------------
\* prepare_rfm_columns (src/_import.py:214-300).
\*
\* A raw table is [schema |-> column name -> dtype, rows |-> sequence of rows],
\* a row a function from the column names to nullable cells. A cell holds
\*   Utf8      its characters,
\*   Int64     the integer,
\*   Float64   the number in hundredths (10.5 is 1050),
\*   Date      days since 1970-01-01,
\*   Datetime  seconds since 1970-01-01T00:00 (the time unit is coarsened to
\*             whole seconds),
\*   Boolean   TRUE / FALSE.

required_cols == <<"user_id", "date", "value">>

INTEGER_DTYPES == {"Int8", "Int16", "Int32", "Int64", "UInt8", "UInt16", "UInt32", "UInt64"}

FLOAT_DTYPES == {"Float32", "Float64"}

\* Hundredths in a unit of a Float64 cell.
FloatScale == 100

\* examples = ... .head(5)
ExamplesHead == 5

Raised(msg, detail) == [kind |-> "error", type |-> "ValueError", msg |-> msg, detail |-> detail]

\* DataFrame.head(n) on a sequence.
head(s, n) == SubSeq(s, 1, IF Len(s) < n THEN Len(s) ELSE n)

\* ---- calendar ----

IsLeap(y) == (y % 4 = 0 /\ y % 100 # 0) \/ y % 400 = 0

DaysInMonth(y, m) ==
    IF m = 2 THEN (IF IsLeap(y) THEN 29 ELSE 28)
    ELSE IF m \in {4, 6, 9, 11} THEN 30 ELSE 31

ValidDate(y, m, d) == m \in 1..12 /\ d \in 1..DaysInMonth(y, m)

\* Days from 1970-01-01 to the proleptic Gregorian date y-m-d.
DaysFromCivil(y, m, d) ==
    LET yy == IF m <= 2 THEN y - 1 ELSE y
        era == yy \div 400
        yoe == yy - era * 400
        mp == (m + 9) % 12
        doy == (153 * mp + 2) \div 5 + d - 1
        doe == yoe * 365 + yoe \div 4 - yoe \div 100 + doy
    IN era * 146097 + doe - 719468

DateOf(y, m, d) == IF ValidDate(y, m, d) THEN Some(DaysFromCivil(y, m, d)) ELSE None

\* str.strptime(pl.Date, format="%Y-%m-%d", strict=False) of one string: null
\* when it does not parse. Fixed-width fields: the strings modelled are either
\* of that form or nowhere near it.
strptime_iso(s) ==
    IF /\ Len(s) = 10
       /\ s[5] = "-" /\ s[8] = "-"
       /\ AllDigits(SubSeq(s, 1, 4)) /\ AllDigits(SubSeq(s, 6, 7)) /\ AllDigits(SubSeq(s, 9, 10))
    THEN DateOf(DigitsToNat(SubSeq(s, 1, 4)), DigitsToNat(SubSeq(s, 6, 7)),
                DigitsToNat(SubSeq(s, 9, 10)))
    ELSE None

\* str.strptime(pl.Date, format="%Y%m%d", strict=False) of one string.
strptime_compact(s) ==
    IF Len(s) = 8 /\ AllDigits(s)
    THEN DateOf(DigitsToNat(SubSeq(s, 1, 4)), DigitsToNat(SubSeq(s, 5, 6)),
                DigitsToNat(SubSeq(s, 7, 8)))
    ELSE None

\* pl.coalesce([a, b]): the first non-null.
coalesce(a, b) == IF a # None THEN a ELSE b

\* cast(pl.Float64, strict=False) of one string: digits, optionally followed by
\* "." and one or two digits; null for anything else modelled.
CastStrToFloat(s) ==
    LET dots == {i \in 1..Len(s) : s[i] = "."} IN
    IF s = <<>> THEN None
    ELSE IF dots = {} THEN
        (IF AllDigits(s) THEN Some(DigitsToNat(s) * FloatScale) ELSE None)
    ELSE
        LET dot == CHOOSE i \in dots : TRUE
            whole == SubSeq(s, 1, dot - 1)
            frac == SubSeq(s, dot + 1, Len(s))
        IN IF /\ Cardinality(dots) = 1
              /\ whole # <<>> /\ AllDigits(whole)
              /\ Len(frac) \in 1..2 /\ AllDigits(frac)
           THEN Some(DigitsToNat(whole) * FloatScale
                     + (IF Len(frac) = 1 THEN 10 * DigitsToNat(frac) ELSE DigitsToNat(frac)))
           ELSE None

\* cast(pl.Float64) of an integer.
CastIntToFloat(n) == n * FloatScale

SecondsPerDay == 86400

\* dt.date() of a Datetime: the day the instant falls in.
DatetimeToDate(ts) == ts \div SecondsPerDay

\* ---- the function ----

MissingColumns_FirstOnly(schema) ==
    head(SelectSeq(required_cols, LAMBDA c : c \notin DOMAIN schema), 1)

\* missing = [c for c in required_cols if c not in df.columns]
MissingColumns(schema) == SelectSeq(required_cols, LAMBDA c : c \notin DOMAIN schema)

\* DataFrame.drop_nulls(): without a subset, a null in any column drops the row.
drop_nulls(rows) == SelectSeq(rows, LAMBDA r : \A c \in DOMAIN r : r[c] # None)

\* with_columns(expr.alias(c)): column c of row i becomes cells[i].
SetColumn(rows, c, cells) == [i \in 1..Len(rows) |-> [rows[i] EXCEPT ![c] = cells[i]]]

\* The values of column c in the rows where `invalid` holds, head(5).
Examples(rows, c, invalid) ==
    LET bad == SelectSeq([i \in 1..Len(rows) |-> <<i, rows[i][c]>>], LAMBDA p : invalid[p[1]])
    IN head([k \in 1..Len(bad) |-> bad[k][2][1]], ExamplesHead)

\* Lines 227-249: the value column as Float64, or the error raised.
PrepareValue(t) ==
    LET val_dtype == t.schema["value"]
        n == Len(t.rows)
    IN IF val_dtype = "Utf8" THEN
           LET value_cast == [i \in 1..n |->
                   IF t.rows[i]["value"] = None THEN None
                   ELSE CastStrToFloat(t.rows[i]["value"][1])]
               invalid == [i \in 1..n |-> value_cast[i] = None /\ t.rows[i]["value"] # None]
               n_invalid == Cardinality({i \in 1..n : invalid[i]})
           IN IF n_invalid > 0
              THEN Raised("value contains non-numeric strings that cannot be cast to float",
                          Examples(t.rows, "value", invalid))
              ELSE Returned([schema |-> [t.schema EXCEPT !["value"] = "Float64"],
                             rows |-> SetColumn(t.rows, "value", value_cast)])
       ELSE IF val_dtype \in INTEGER_DTYPES THEN
           Returned([schema |-> [t.schema EXCEPT !["value"] = "Float64"],
                     rows |-> SetColumn(t.rows, "value",
                                 [i \in 1..n |->
                                     IF t.rows[i]["value"] = None THEN None
                                     ELSE Some(CastIntToFloat(t.rows[i]["value"][1]))])])
       ELSE IF val_dtype \in FLOAT_DTYPES THEN
           Returned([schema |-> [t.schema EXCEPT !["value"] = "Float64"], rows |-> t.rows])
       ELSE Raised("unsupported dtype for value", <<val_dtype>>)

\* Lines 251-295: the date column as pl.Date, or the error raised. The integer
\* branch computes `examples` and raises a message without them (line 273).
PrepareDate(t) ==
    LET date_dtype == t.schema["date"]
        n == Len(t.rows)
        cell(i) == t.rows[i]["date"]
    IN IF date_dtype = "Date" THEN Returned(t)
       ELSE IF date_dtype = "Datetime" THEN
           Returned([schema |-> [t.schema EXCEPT !["date"] = "Date"],
                     rows |-> SetColumn(t.rows, "date",
                                 [i \in 1..n |->
                                     IF cell(i) = None THEN None
                                     ELSE Some(DatetimeToDate(cell(i)[1]))])])
       ELSE IF date_dtype \in INTEGER_DTYPES THEN
           LET parsed == [i \in 1..n |->
                   IF cell(i) = None THEN None
                   ELSE IF cell(i)[1] < 0 THEN None
                   ELSE strptime_compact(IntToStr(cell(i)[1]))]
               invalid == [i \in 1..n |-> parsed[i] = None /\ cell(i) # None]
               n_invalid == Cardinality({i \in 1..n : invalid[i]})
           IN IF n_invalid > 0
              THEN Raised("date could not be parsed (integer YYYYMMDD expected)", <<>>)
              ELSE Returned([schema |-> [t.schema EXCEPT !["date"] = "Date"],
                             rows |-> SetColumn(t.rows, "date", parsed)])
       ELSE IF date_dtype = "Utf8" THEN
           LET parsed == [i \in 1..n |->
                   IF cell(i) = None THEN None
                   ELSE coalesce(strptime_iso(cell(i)[1]), strptime_compact(cell(i)[1]))]
               invalid == [i \in 1..n |-> parsed[i] = None /\ cell(i) # None]
               n_invalid == Cardinality({i \in 1..n : invalid[i]})
           IN IF n_invalid > 0
              THEN Raised("date must be 'YYYY-MM-DD' or 'YYYYMMDD' (string). unparseable examples",
                          Examples(t.rows, "date", invalid))
              ELSE Returned([schema |-> [t.schema EXCEPT !["date"] = "Date"],
                             rows |-> SetColumn(t.rows, "date", parsed)])
       ELSE Raised("unsupported dtype for date", <<date_dtype>>)

prepare_rfm_columns(table) ==
    LET missing == MissingColumns(table.schema) IN
    IF missing # <<>> THEN Raised("missing required columns", missing)
    ELSE
        LET out == [schema |-> table.schema, rows |-> drop_nulls(table.rows)]
            v == PrepareValue(out)
        IN IF v.kind = "error" THEN v
           ELSE LET dt == PrepareDate(v.value) IN
                IF dt.kind = "error" THEN dt
                ELSE IF dt.value.schema["value"] # "Float64"
                     THEN [kind |-> "error", type |-> "AssertionError",
                           msg |-> "value is not pl.Float64 after casting", detail |-> <<>>]
                ELSE IF dt.value.schema["date"] # "Date"
                     THEN [kind |-> "error", type |-> "AssertionError",
                           msg |-> "date is not pl.Date after parsing", detail |-> <<>>]
                ELSE dt

\* ---- the tables prepare_rfm_columns is run on ----

\* Most rows in a table whose rows are all drawn independently.
MaxPrepareRows == 2

\* Most rows in a table made of two alternating rows.
MaxLongRows == 6

Pad(str, width) ==
    [i \in 1..(width - Len(str)) |-> "0"] \o str

IsoStr(y, m, d) ==
    Pad(IntToStr(y), 4) \o <<"-">> \o Pad(IntToStr(m), 2) \o <<"-">> \o Pad(IntToStr(d), 2)

CompactStr(y, m, d) == Pad(IntToStr(y), 4) \o Pad(IntToStr(m), 2) \o Pad(IntToStr(d), 2)

CompactInt(y, m, d) == y * 10000 + m * 100 + d

\* The cells a column of a dtype is filled from; the last date of each kind is
\* no calendar date (2023 is no leap year), "15/01/2024" and "abc" do not parse.
DateCells(dtype) ==
    IF dtype = "Date" THEN {Some(DaysFromCivil(2024, 1, 15)), Some(DaysFromCivil(2024, 2, 29))}
    ELSE IF dtype = "Datetime" THEN
        {Some(DaysFromCivil(2024, 1, 15) * SecondsPerDay + 49500),
         Some(DaysFromCivil(2024, 2, 29) * SecondsPerDay)}
    ELSE IF dtype = "Int64" THEN {Some(CompactInt(2024, 1, 15)), Some(CompactInt(2023, 2, 29))}
    ELSE IF dtype = "Utf8" THEN
        {Some(IsoStr(2024, 1, 15)), Some(CompactStr(2024, 2, 29)), Some(IsoStr(2023, 2, 29)),
         Some(<<"1", "5", "/", "0", "1", "/", "2", "0", "2", "4">>)}
    ELSE {Some(TRUE)}

ValueCells(dtype) ==
    IF dtype = "Utf8" THEN
        {Some(<<"1", "0", ".", "5">>), Some(<<"7">>), Some(<<"a", "b", "c">>)}
    ELSE IF dtype = "Int64" THEN {Some(7)}
    ELSE IF dtype = "Float64" THEN {Some(1050)}
    ELSE {Some(TRUE)}

Cells(c, schema) ==
    IF c \notin DOMAIN schema THEN {None}
    ELSE {None} \cup
         (IF c = "date" THEN DateCells(schema[c])
          ELSE IF c = "value" THEN ValueCells(schema[c])
          ELSE IF c = "user_id" THEN {Some("u1")}
          ELSE {Some("x")})

RowsOver(schema) ==
    {[c \in DOMAIN schema |->
        IF c = "user_id" THEN u ELSE IF c = "date" THEN d ELSE IF c = "value" THEN v ELSE x] :
        u \in Cells("user_id", schema), d \in Cells("date", schema),
        v \in Cells("value", schema), x \in Cells("note", schema)}

DateDtypes == {"Date", "Datetime", "Int64", "Utf8", "Boolean"}

ValueDtypes == {"Utf8", "Int64", "Float64", "Boolean"}

\* Tables with exactly the three required columns, as the mapping UI builds them.
MappedSchemas ==
    {[user_id |-> "Utf8", date |-> dd, value |-> vd] : dd \in DateDtypes, vd \in ValueDtypes}

\* Tables read from a file as they are: a further column `note`, or columns missing.
WideSchema == [user_id |-> "Utf8", date |-> "Utf8", value |-> "Float64", note |-> "Utf8"]

FileSchemas ==
    {[c \in C |-> WideSchema[c]] : C \in SUBSET (DOMAIN WideSchema)}
    \cup {[user_id |-> "Utf8", date |-> "Int64", value |-> "Int64", note |-> "Utf8"]}

Schemas == MappedSchemas \cup FileSchemas

LongTables(schema) ==
    {[i \in 1..n |-> IF i % 2 = 1 THEN a ELSE b] :
        a \in RowsOver(schema), b \in RowsOver(schema),
        n \in (MaxPrepareRows + 1)..MaxLongRows}

InitPrepare ==
    /\ pc = "call"
    /\ fn = "prepare_rfm_columns"
    /\ \E schema \in Schemas :
           \E rows \in SeqsUpTo(RowsOver(schema), MaxPrepareRows) \cup LongTables(schema) :
               df = [schema |-> schema, rows |-> rows]
    /\ row = NoValue
    /\ lower_percentile = 0
    /\ upper_percentile = 0
    /\ ret = NoValue
    /\ NoApp

PrepareRfmColumns ==
    /\ pc = "call"
    /\ fn = "prepare_rfm_columns"
    /\ ret' = prepare_rfm_columns(df)
    /\ pc' = "done"
    /\ UNCHANGED <<fn, df, row, lower_percentile, upper_percentile, app_vars>>

NextPrepare == PrepareRfmColumns

SpecPrepare == InitPrepare /\ [][NextPrepare]_vars

PrepareDone == pc = "done" /\ fn = "prepare_rfm_columns"

RequiredSet == {"user_id", "date", "value"}

HasRequired == RequiredSet \subseteq DOMAIN df.schema

\* C7: a table lacking one of user_id, date, value makes prepare_rfm_columns
\* fail, returning no table, with an error that names exactly the missing
\* required columns, each once; a table that has all three never gets this error.
C7_MissingColumns ==
    PrepareDone =>
        LET missing == RequiredSet \ DOMAIN df.schema IN
        /\ missing # {} =>
               /\ ret.kind = "error"
               /\ ret.msg = "missing required columns"
               /\ Range(ret.detail) = missing
               /\ Len(ret.detail) = Cardinality(missing)
        /\ missing = {} => ~(ret.kind = "error" /\ ret.msg = "missing required columns")

\* C7 witness: a table with user_id and note only has been refused, naming
\* date and value.
C7_Witness ==
    /\ PrepareDone
    /\ DOMAIN df.schema = {"user_id", "note"}
    /\ df.rows # <<>>
    /\ ret.kind = "error"
    /\ ret.detail = <<"date", "value">>

\* The rows of the input with a null in user_id, date or value.
NullInRequired == {i \in 1..Len(df.rows) : \E c \in RequiredSet : df.rows[i][c] = None}

\* C8: when prepare_rfm_columns succeeds, also on a table with further
\* columns, the output has as many rows as the input minus exactly the rows
\* with a null in user_id, date or value.
C8_NullDrop ==
    (PrepareDone /\ ret.kind = "ok") =>
        Len(ret.value.rows) = Len(df.rows) - Cardinality(NullInRequired)

\* C8 on tables with exactly the three required columns: the count holds there.
C8_NullDropMapped ==
    (PrepareDone /\ ret.kind = "ok" /\ DOMAIN df.schema = RequiredSet) =>
        Len(ret.value.rows) = Len(df.rows) - Cardinality(NullInRequired)

\* C9: a returned table has exactly the columns user_id, date, value, value
\* Float64, date pl.Date, and no null cell.
C9_OutputSchema ==
    (PrepareDone /\ ret.kind = "ok") =>
        /\ DOMAIN ret.value.schema = RequiredSet
        /\ ret.value.schema["value"] = "Float64"
        /\ ret.value.schema["date"] = "Date"
        /\ \A i \in 1..Len(ret.value.rows) :
               /\ DOMAIN ret.value.rows[i] = RequiredSet
               /\ \A c \in DOMAIN ret.value.rows[i] : ret.value.rows[i][c] # None

\* C9 without the claim on the column set: types and absence of nulls hold for
\* every returned table, whatever the encodings of value and date.
C9_TypesAndNoNulls ==
    (PrepareDone /\ ret.kind = "ok") =>
        /\ RequiredSet \subseteq DOMAIN ret.value.schema
        /\ ret.value.schema["value"] = "Float64"
        /\ ret.value.schema["date"] = "Date"
        /\ \A i \in 1..Len(ret.value.rows) :
               \A c \in DOMAIN ret.value.rows[i] : ret.value.rows[i][c] # None

\* Whether a non-null date cell of a column of the dtype parses.
Parses(dtype, v) ==
    IF dtype = "Int64" THEN strptime_compact(IntToStr(v)) # None
    ELSE strptime_iso(v) # None \/ strptime_compact(v) # None

\* The date values, after the null drop, that do not parse.
UnparseableDates ==
    LET kept == drop_nulls(df.rows)
    IN {kept[i]["date"][1] : i \in {j \in 1..Len(kept) :
                                     ~Parses(df.schema["date"], kept[j]["date"][1])}}

DateErrors ==
    {"date could not be parsed (integer YYYYMMDD expected)",
     "date must be 'YYYY-MM-DD' or 'YYYYMMDD' (string). unparseable examples"}

\* C10: for an integer or a string date column, a date value that does not
\* parse after the null drop (the value column being in order) makes
\* prepare_rfm_columns fail with a date parse error that carries between 1 and
\* 5 of the offending values; no table is returned.
C10_DateParseError ==
    (/\ PrepareDone /\ HasRequired
     /\ df.schema["date"] \in {"Int64", "Utf8"}
     /\ df.schema["value"] \in {"Int64", "Float64"}
     /\ UnparseableDates # {}) =>
        /\ ret.kind = "error"
        /\ ret.msg \in DateErrors
        /\ Len(ret.detail) \in 1..5
        /\ Range(ret.detail) \subseteq UnparseableDates

\* C10 on string date columns alone: there the error carries the examples.
C10_StringDates ==
    (/\ PrepareDone /\ HasRequired
     /\ df.schema["date"] = "Utf8"
     /\ df.schema["value"] \in {"Int64", "Float64"}
     /\ UnparseableDates # {}) =>
        /\ ret.kind = "error"
        /\ ret.msg \in DateErrors
        /\ Len(ret.detail) \in 1..5
        /\ Range(ret.detail) \subseteq UnparseableDates

\* The head(5) cut is reached: six offending rows, five examples.
C10_FiveExamples ==
    /\ PrepareDone /\ HasRequired /\ df.schema["date"] = "Utf8"
    /\ Len(drop_nulls(df.rows)) = 6
    /\ ret.kind = "error" /\ ret.msg \in DateErrors
    /\ Len(ret.detail) = 5

-----------------------------------------------------------------------------
\* The Streamlit application: src/_import.py sidebar_import, src/main.py.
\*
\* Streamlit runs main.py from top to bottom once when the session starts and
\* once more after every user event; st.stop() ends the run where it is
\* called; st.session_state survives from one run to the next; a button is
\* True only in the run its click caused. The functions under st.cache_data
\* are deterministic, so that the memoisation changes no result and is not
\* modelled.

\* ---- files ----

\* An uploaded file: its name, the length of its bytes, and its bytes, named by
\* a tag that read_csv turns into the table they encode.
File(name, size, content) == [name |-> name, size |-> size, content |-> content]

FileSchema == [id |-> "Utf8", day |-> "Int64", amount |-> "Int64"]

FileRow(id, day, amount) == [id |-> Some(id), day |-> Some(day), amount |-> Some(amount)]

\* pl.read_csv of the bytes of a file: the table, or the error raised.
\* "jan" and "jan_edited" are two exports of equal byte length that differ in
\* one amount; "feb" is another export; "sample" has the three required
\* columns and two users, "sample_unmapped" has other column names; anything
\* else is no csv.
read_csv(content) ==
    CASE content = "jan" ->
           Returned([schema |-> FileSchema,
                     rows |-> <<FileRow(<<"u", "1">>, CompactInt(2024, 1, 1), 10),
                                FileRow(<<"u", "1">>, CompactInt(2024, 1, 5), 20)>>])
      [] content = "jan_edited" ->
           Returned([schema |-> FileSchema,
                     rows |-> <<FileRow(<<"u", "1">>, CompactInt(2024, 1, 1), 10),
                                FileRow(<<"u", "1">>, CompactInt(2024, 1, 5), 30)>>])
      [] content = "feb" ->
           Returned([schema |-> FileSchema,
                     rows |-> <<FileRow(<<"u", "2">>, CompactInt(2024, 2, 1), 40)>>])
      [] content = "sample" ->
           Returned([schema |-> [user_id |-> "Utf8", date |-> "Utf8", value |-> "Int64"],
                     rows |-> <<[user_id |-> Some(<<"a">>), date |-> Some(IsoStr(2024, 3, 1)),
                                 value |-> Some(7)],
                                [user_id |-> Some(<<"b">>), date |-> Some(IsoStr(2024, 3, 9)),
                                 value |-> Some(90)]>>])
      [] content = "sample_unmapped" ->
           Returned([schema |-> FileSchema,
                     rows |-> <<FileRow(<<"u", "1">>, CompactInt(2024, 1, 1), 10)>>])
      [] OTHER ->
           [kind |-> "error", type |-> "ComputeError", msg |-> "could not parse csv",
            detail |-> <<>>]

\* Length of the bytes of the two January exports.
JanSize == 40

\* Length of the bytes of the February export.
FebSize == 21

\* The files the user has to upload.
UserFiles ==
    {File("jan.csv", JanSize, "jan"), File("jan.csv", JanSize, "jan_edited"),
     File("feb.csv", FebSize, "feb")}

\* What sample_data.csv may hold: the file is not part of src/.
SampleContents == {"sample", "sample_unmapped"}

_read_sample_csv(content) == read_csv(content)

_read_uploaded_csv(content) == read_csv(content)

_prepare_cached(table) == prepare_rfm_columns(table)

_distinct(names) == Cardinality(Range(names)) = Len(names)

\* df.height and df.width.
height(table) == Len(table.rows)

width(table) == Cardinality(DOMAIN table.schema)

\* df_uploaded.select([user_col, date_col, value_col]).rename({...}), lines 178-181.
select_rename(table, user_col, date_col, value_col) ==
    LET source == [user_id |-> user_col, date |-> date_col, value |-> value_col] IN
    [schema |-> [c \in DOMAIN source |-> table.schema[source[c]]],
     rows |-> [i \in 1..Len(table.rows) |->
                  [c \in DOMAIN source |-> table.rows[i][source[c]]]]]

\* ---- st.session_state ----

rf_variants ==
    {"Recency Frequency Monetary (e.g. revenue)",
     "Recency Frequency Engagement (e.g. page views)"}

\* The session after the setdefault calls of main.py:13-16 and
\* _import.py:41-45; a key that was never set reads as None.
NewSession ==
    [rf_variant |-> "Recency Frequency Monetary (e.g. revenue)",
     remove_outliers |-> FALSE,
     data_mode |-> "sample",
     data_version |-> 0,
     uploaded_ready |-> FALSE,
     raw_key |-> None,
     raw_df |-> None,
     uploaded_id |-> None,
     pipeline_key |-> None,
     rfm |-> None,
     csv_cache |-> <<>>]

\* ---- sidebar_import ----

\* F applied to the value of x, the value computed once.
Bind(x, F(_)) == CHOOSE y \in {F(v) : v \in {x}} : TRUE

\* st.stop(): the run ends in the sidebar, nothing is returned.
Stop(ss, path, mapping_ui) ==
    [kind |-> "stop", session |-> ss, path |-> path, mapping_ui |-> mapping_ui]

\* return st.session_state["raw_df"]: the caller reads it from the session.
Return(ss, path, mapping_ui) ==
    [kind |-> "return", session |-> ss, path |-> path, mapping_ui |-> mapping_ui]

PreparationFailed_DropsDataset(ss, path, mapping_ui) ==
    Stop([ss EXCEPT !.raw_df = None, !.raw_key = None], path, mapping_ui)

\* Lines 77-79 and 183-185: the except branch, st.error and st.stop().
PreparationFailed(ss, path, mapping_ui) == Stop(ss, path, mapping_ui)

\* Lines 82-86 and 188-198: the key, the version bump, the stored dataset.
StoreDataset(ss, new_key, df_prepared) ==
    [ss EXCEPT !.data_version = IF ss.raw_key # new_key THEN @ + 1 ELSE @,
               !.raw_key = new_key,
               !.raw_df = Some(df_prepared)]

\* Lines 65-70: a file other than the one seen last, by name and size.
NewFileSelected(ss, uploaded_id) ==
    IF uploaded_id # None /\ (ss.uploaded_id = None \/ ss.uploaded_id # uploaded_id)
    THEN [ss EXCEPT !.uploaded_id = uploaded_id,
                    !.uploaded_ready = FALSE,
                    !.data_mode = "uploaded"]
    ELSE ss

\* Lines 73-92.
SamplePath(ss, sample_data, sample_content) ==
    Bind(_read_sample_csv(sample_content), LAMBDA df_sample :
    Bind(IF df_sample.kind = "error" THEN df_sample ELSE _prepare_cached(df_sample.value),
         LAMBDA df_prepared :
    IF df_prepared.kind = "error" THEN PreparationFailed(ss, "sample_error", FALSE)
    ELSE Bind(<<"sample", sample_data, height(df_prepared.value), width(df_prepared.value)>>,
              LAMBDA new_key :
         Bind(StoreDataset(ss, new_key, df_prepared.value), LAMBDA stored :
         Return(stored, "sample", FALSE)))))

\* Lines 169-208, after the mapping widgets were drawn.
ImportButton(ss, uploaded_id, df_uploaded, w) ==
    IF ~w.btn_import THEN Stop(ss, "mapping", TRUE)
    ELSE IF w.map_user = None \/ w.map_date = None \/ w.map_value = None
    THEN Stop(ss, "import_invalid", TRUE)
    ELSE IF ~_distinct(<<w.map_user[1], w.map_date[1], w.map_value[1]>>)
    THEN Stop(ss, "import_invalid", TRUE)
    ELSE Bind(_prepare_cached(select_rename(df_uploaded, w.map_user[1], w.map_date[1],
                                            w.map_value[1])),
              LAMBDA df_prepared :
         IF df_prepared.kind = "error" THEN PreparationFailed(ss, "import_error", TRUE)
         ELSE Bind(<<"uploaded", uploaded_id, w.map_user[1], w.map_date[1], w.map_value[1],
                     height(df_prepared.value), width(df_prepared.value)>>,
                   LAMBDA new_key :
              Bind(StoreDataset(ss, new_key, df_prepared.value), LAMBDA stored :
              Bind([stored EXCEPT !.data_mode = "uploaded", !.uploaded_ready = TRUE],
                   LAMBDA imported :
              Return(imported, "import", TRUE)))))

\* Lines 113-167: no file, an unreadable or an empty file, or the mapping UI,
\* whose radio and checkbox are stored as soon as they are drawn.
MappingPath(ss, file, uploaded_id, w) ==
    IF file = None THEN Stop(ss, "no_file", FALSE)
    ELSE Bind(_read_uploaded_csv(file[1].content), LAMBDA df_uploaded :
         IF df_uploaded.kind = "error" THEN Stop(ss, "read_error", FALSE)
         ELSE IF df_uploaded.value.rows = <<>> THEN Stop(ss, "empty_file", FALSE)
         ELSE Bind([ss EXCEPT !.rf_variant = w.rf_variant_radio,
                              !.remove_outliers = w.remove_outliers_cb],
                   LAMBDA drawn :
              Bind(df_uploaded.value, LAMBDA table :
              ImportButton(drawn, uploaded_id, table, w))))

\* Lines 96-106: the stored dataset is returned, also by the run in which
\* 'change data / remap' is clicked.
ReadyPath(ss, w) ==
    Bind(IF w.btn_remap THEN [ss EXCEPT !.uploaded_ready = FALSE] ELSE ss, LAMBDA after :
    Return(after, "ready", FALSE))

\* sidebar_import (lines 31-208) run on the session ss with the file `file` in
\* the uploader and the widget values w; sample_content is what the file
\* sample_data holds.
sidebar_import(ss, file, w, sample_data, sample_content) ==
    Bind(IF file = None THEN None ELSE <<file[1].name, file[1].size>>, LAMBDA uploaded_id :
    Bind(NewFileSelected(ss, uploaded_id), LAMBDA ss1 :
    IF file = None /\ ss1.data_mode = "sample"
    THEN SamplePath(ss1, sample_data, sample_content)
    ELSE IF ss1.data_mode = "uploaded" /\ ss1.uploaded_ready /\ ss1.raw_df # None
    THEN ReadyPath(ss1, w)
    ELSE Bind(IF ss1.data_mode = "uploaded" /\ ss1.uploaded_ready
              THEN [ss1 EXCEPT !.uploaded_ready = FALSE] ELSE ss1,
              LAMBDA not_ready :
         MappingPath(not_ready, file, uploaded_id, w))))

\* ---- main.py: the scored table and the export ----

sample_data == "sample_data.csv"

\* The columns of the frame rfm_scoring returns, in order (src/_helpers.py:61-65, 123-135).
RfmColumns ==
    <<"user_id", "recency", "frequency", "monetary",
      "r_score", "f_score", "m_score", "rfm_total", "rfm_string">>

\* The rows of a prepared table as the frame the helpers work on: the prepared
\* table has no null left, every cell is read by its value.
Frame(table) ==
    [i \in 1..Len(table.rows) |->
        [c \in DOMAIN table.rows[i] |-> table.rows[i][c][1]]]

\* main.py:55-57: the frame handed to rfm_transformation.
PipelineInput(raw_df, remove_outliers) ==
    IF remove_outliers
    THEN remove_outliers_percentile(Frame(raw_df), "value", 1, 99)
    ELSE Frame(raw_df)

\* rfm_polars.to_pandas(): the rows under their ordered columns.
to_pandas(columns, rows) == [columns |-> columns, rows |-> rows]

\* main.py:98: rfm["segment"] = rfm.apply(map_user_segment, axis=1); the
\* column is appended when new and overwritten otherwise.
WithSegment(frame) ==
    [columns |-> IF \E i \in 1..Len(frame.columns) : frame.columns[i] = "segment"
                 THEN frame.columns
                 ELSE Append(frame.columns, "segment"),
     rows |-> [i \in 1..Len(frame.rows) |->
                  WithColumns(frame.rows[i],
                      [segment |-> map_user_segment(
                          [k \in ScoreKeys |-> IntCell(frame.rows[i][k])])])]]

drop_KeepsAll(frame, dropped) == frame

\* DataFrame.drop(columns=[...]).
drop(frame, dropped) ==
    LET kept == SelectSeq(frame.columns, LAMBDA c : c \notin dropped) IN
    [columns |-> kept,
     rows |-> [i \in 1..Len(frame.rows) |->
                  [c \in Range(kept) |-> frame.rows[i][c]]]]

\* rfm[rfm["segment"] == selected_segment].
SegmentRows(frame, selected_segment) ==
    [columns |-> frame.columns,
     rows |-> SelectSeq(frame.rows, LAMBDA r : r.segment = selected_segment)]

\* ["all"] + sorted(rfm["segment"].unique()) as the set of options; the
\* order of the options plays no part in what is exported.
segments_sorted(frame) == {"all"} \cup {frame.rows[i].segment : i \in 1..Len(frame.rows)}

\* selected_segment.lower().replace(" ", "_") on the labels map_user_segment returns.
LowerUnderscore(label) ==
    CASE label = "Champions" -> "champions"
      [] label = "Active" -> "active"
      [] label = "Newcomers" -> "newcomers"
      [] label = "Fading Loyalists" -> "fading_loyalists"
      [] label = "Inactive" -> "inactive"
      [] label = "At Risk (Low Value)" -> "at_risk_(low_value)"
      [] label = "Can't Lose Them" -> "can't_lose_them"
      [] label = "Reactivation Pool" -> "reactivation_pool"
      [] label = "Lost Casual" -> "lost_casual"
      [] label = "Invalid Score" -> "invalid_score"
      [] OTHER -> label

\* The text pandas writes for a float64, the value given in hundredths.
FloatToStr(v) ==
    LET whole == v \div FloatScale
        frac == v % FloatScale
    IN IntToStr(whole) \o <<".">> \o
       (IF frac % 10 = 0 THEN IntToStr(frac \div 10) ELSE Pad(IntToStr(frac), 2))

\* The text of one cell in to_csv.
CsvField(column, value) ==
    CASE column = "monetary" -> FloatToStr(value)
      [] column \in {"user_id", "rfm_string"} -> value
      [] column = "segment" -> <<value>>
      [] OTHER -> IntToStr(value)

\* df_pd.to_csv(index=False): the header line and one line of fields a row.
_to_csv_bytes(frame) ==
    [header |-> frame.columns,
     lines |-> [i \in 1..Len(frame.rows) |->
                   [j \in 1..Len(frame.columns) |->
                       CsvField(frame.columns[j], frame.rows[i][frame.columns[j]])]]]

\* main.py:47-64: the scored table of this run and the session that caches
\* it; `order` is the order group_by returns the users in when it is run.
ScoredTable(ss, raw_df, order) ==
    LET pipeline_key == <<ss.data_version, ss.rf_variant, ss.remove_outliers>> IN
    IF ss.pipeline_key # pipeline_key
    THEN LET df_transformed ==
                 rfm_transformation(PipelineInput(raw_df, ss.remove_outliers), order)
             rfm == WithSegment(to_pandas(RfmColumns, rfm_scoring(df_transformed)))
         IN [session |-> [ss EXCEPT !.rfm = Some(rfm), !.pipeline_key = pipeline_key],
             rfm |-> rfm]
    ELSE [session |-> [ss EXCEPT !.rfm = Some(WithSegment(ss.rfm[1]))],
          rfm |-> WithSegment(ss.rfm[1])]

\* main.py:163-194: the bytes offered for download and the session that
\* caches them.
Download(ss, rfm_scored, selected_segment) ==
    LET rfm == drop(rfm_scored, ScoreKeys)
        df_to_download == IF selected_segment = "all" THEN rfm
                          ELSE SegmentRows(rfm, selected_segment)
        suffix == IF selected_segment = "all" THEN "all"
                  ELSE LowerUnderscore(selected_segment)
        csv_cache_key == <<ss.pipeline_key, suffix>>
        csv_cache == IF csv_cache_key \in DOMAIN ss.csv_cache THEN ss.csv_cache
                     ELSE (csv_cache_key :> _to_csv_bytes(df_to_download)) @@ ss.csv_cache
    IN [session |-> [ss EXCEPT !.csv_cache = csv_cache],
        csv_bytes |-> csv_cache[csv_cache_key]]

\* ---- one script run per user event ----

\* Most entries of csv_cache the runs are followed to. Every bump of
\* data_version gives a new pipeline_key and with it a new entry, so that the
\* bound holds data_version down as well.
MaxCsvEntries == 2

DefaultVariant == "Recency Frequency Monetary (e.g. revenue)"

\* The values the widgets have when a run starts with no event on them: the
\* buttons are not clicked, the mapping select boxes are empty (index=None),
\* the radio keeps its value while the mapping UI stays on screen and starts
\* at index 0 otherwise, the checkbox starts at the stored remove_outliers, the
\* download select box keeps its value while it stays on screen.
Widgets ==
    [btn_remap |-> FALSE,
     btn_import |-> FALSE,
     map_user |-> None,
     map_date |-> None,
     map_value |-> None,
     rf_variant_radio |-> IF run.mapping_ui THEN session_state.rf_variant ELSE DefaultVariant,
     remove_outliers_cb |-> session_state.remove_outliers,
     selected_segment |-> run.selected_segment,
     segment_options |-> IF run.rfm = None THEN {} ELSE segments_sorted(run.rfm[1])]

\* What a run that st.stop() ended leaves on screen.
StoppedRun(imp) ==
    [kind |-> "stop", path |-> imp.path, mapping_ui |-> imp.mapping_ui,
     raw_df |-> None, rfm |-> None, selected_segment |-> "all", csv_bytes |-> None]

\* main.py from top to bottom, with `file` in the uploader and the widget
\* values w.
Script(file, w) ==
    \E imp \in {sidebar_import(session_state, file, w, sample_data, sample_file)} :
    /\ uploaded' = file
    /\ IF imp.kind = "stop"
       THEN /\ session_state' = imp.session
            /\ run' = StoppedRun(imp)
       ELSE \E order \in GroupOrders(PipelineInput(imp.session.raw_df[1], imp.session.remove_outliers)) :
            \E scored \in {ScoredTable(imp.session, imp.session.raw_df[1], order)} :
            \E selected_segment \in
                    {IF segments_sorted(scored.rfm) = w.segment_options
                     THEN w.selected_segment ELSE "all"} :
            \E download \in {Download(scored.session, scored.rfm, selected_segment)} :
               /\ Cardinality(DOMAIN download.session.csv_cache) <= MaxCsvEntries
               /\ session_state' = download.session
               /\ run' = [kind |-> "return", path |-> imp.path,
                          mapping_ui |-> imp.mapping_ui,
                          raw_df |-> imp.session.raw_df, rfm |-> Some(scored.rfm),
                          selected_segment |-> selected_segment,
                          csv_bytes |-> Some(download.csv_bytes)]
    /\ UNCHANGED <<pc, fn, df, row, lower_percentile, upper_percentile, ret, sample_file>>

\* Before the first run: an empty session (every key at its setdefault), no
\* file in the uploader, and whatever sample_data.csv is on disk.
InitApp ==
    /\ pc = "app"
    /\ fn = "main"
    /\ df = NoValue
    /\ row = NoValue
    /\ lower_percentile = 0
    /\ upper_percentile = 0
    /\ ret = NoValue
    /\ session_state = NewSession
    /\ uploaded = None
    /\ sample_file \in SampleContents
    /\ run = [kind |-> "none", path |-> "none", mapping_ui |-> FALSE,
              raw_df |-> None, rfm |-> None, selected_segment |-> "all", csv_bytes |-> None]

\* The session opens: the first run.
StartSession ==
    /\ pc = "app" /\ run.kind = "none"
    /\ Script(uploaded, Widgets)

\* The user puts a file into the uploader (the first, or another one).
UploadFile ==
    /\ pc = "app" /\ run.kind # "none"
    /\ \E f \in UserFiles :
          /\ uploaded # Some(f)
          /\ Script(Some(f), Widgets)

\* The user removes the file from the uploader.
ClearFile ==
    /\ pc = "app" /\ run.kind # "none"
    /\ uploaded # None
    /\ Script(None, Widgets)

\* The user clicks 'change data / remap', drawn by the ready path.
ClickRemap ==
    /\ pc = "app" /\ run.kind = "return" /\ run.path = "ready"
    /\ Script(uploaded, [Widgets EXCEPT !.btn_remap = TRUE])

\* The user changes the radio or the checkbox of the mapping UI.
ChangeSettings ==
    /\ pc = "app" /\ run.mapping_ui
    /\ \E rf \in rf_variants, ro \in BOOLEAN :
          /\ <<rf, ro>> # <<session_state.rf_variant, session_state.remove_outliers>>
          /\ Script(uploaded,
                    [Widgets EXCEPT !.rf_variant_radio = rf, !.remove_outliers_cb = ro])

\* The columns the mapping select boxes offer for the file in the uploader.
MappingOptions ==
    {None} \cup {Some(c) : c \in DOMAIN _read_uploaded_csv(uploaded[1].content).value.schema}

\* What the three select boxes hold at a click on 'import': three different
\* columns, or one value in all three (no column at all, or one column chosen
\* three times).
MappingChoices ==
    {m \in MappingOptions \X MappingOptions \X MappingOptions :
        \/ m[1] = m[2] /\ m[2] = m[3]
        \/ None \notin {m[1], m[2], m[3]} /\ Cardinality({m[1], m[2], m[3]}) = 3}

\* The user clicks 'import' with the three select boxes as they stand.
ClickImport ==
    /\ pc = "app" /\ run.mapping_ui
    /\ \E m \in MappingChoices :
          Script(uploaded,
                 [Widgets EXCEPT !.btn_import = TRUE, !.map_user = m[1],
                                 !.map_date = m[2], !.map_value = m[3]])

\* The user picks a segment in the download select box.
SelectSegment ==
    /\ pc = "app" /\ run.kind = "return"
    /\ \E s \in segments_sorted(run.rfm[1]) :
          /\ s # run.selected_segment
          /\ Script(uploaded, [Widgets EXCEPT !.selected_segment = s])

\* Any other event: a widget of the page that stores nothing, or a rerun
\* asked for from the menu.
Rerun ==
    /\ pc = "app" /\ run.kind # "none"
    /\ Script(uploaded, Widgets)

NextApp ==
    \/ StartSession
    \/ UploadFile
    \/ ClearFile
    \/ ClickRemap
    \/ ChangeSettings
    \/ ClickImport
    \/ SelectSegment
    \/ Rerun

SpecApp == InitApp /\ [][NextApp]_vars

\* The user never stops using the uploader: a file that can be put in is put
\* in, a file that can be removed is removed, and each time the script runs.
SpecAppLive == SpecApp /\ WF_vars(UploadFile) /\ WF_vars(ClearFile)

-----------------------------------------------------------------------------
\* Properties of the application.

\* The run that led to this state raised while reading or preparing the
\* sample (lines 74-79) or while preparing the mapped columns (lines 177-185).
ImportRaised == run.path \in {"sample_error", "import_error"}

\* C11: a run of sidebar_import in which reading or preparing the data raises
\* (on the sample path or after a click on 'import') stops without returning
\* a dataset, and leaves raw_df, raw_key, data_version, uploaded_ready, the
\* stored rfm table and pipeline_key as they were before the run.
C11_FailedImportKeepsState ==
    [][ImportRaised' =>
          /\ run'.kind = "stop" /\ run'.raw_df = None /\ run'.rfm = None
          /\ session_state'.raw_df = session_state.raw_df
          /\ session_state'.raw_key = session_state.raw_key
          /\ session_state'.data_version = session_state.data_version
          /\ session_state'.uploaded_ready = session_state.uploaded_ready
          /\ session_state'.rfm = session_state.rfm
          /\ session_state'.pipeline_key = session_state.pipeline_key]_vars

\* An import that raised after an earlier import had succeeded: the dataset,
\* its key and the scored table of the earlier import are still stored.
C11_Witness ==
    /\ run.path = "import_error"
    /\ session_state.raw_df # None /\ session_state.raw_key # None
    /\ session_state.rfm # None
    /\ session_state.data_version > 0

\* ---- the export ----

\* The columns the export is said to have.
ScoredColumns ==
    <<"user_id", "recency", "frequency", "monetary",
      "r_score", "f_score", "m_score", "rfm_total", "rfm_string", "segment">>

\* The columns left once the three scores are dropped.
UnscoredColumns ==
    <<"user_id", "recency", "frequency", "monetary", "rfm_total", "rfm_string", "segment">>

\* The float a decimal text with one or two decimals reads as, in hundredths.
ReadFloat(field) ==
    LET dot == CHOOSE j \in 1..Len(field) : field[j] = "."
        decimals == SubSeq(field, dot + 1, Len(field))
    IN DigitsToNat(SubSeq(field, 1, dot - 1)) * FloatScale
       + (IF Len(decimals) = 1 THEN 10 * DigitsToNat(decimals) ELSE DigitsToNat(decimals))

\* The value read back from the text of one cell of the export.
ReadField(column, field) ==
    CASE column \in {"recency", "frequency", "r_score", "f_score", "m_score", "rfm_total"} ->
           DigitsToNat(field)
      [] column = "monetary" -> ReadFloat(field)
      [] column = "segment" -> field[1]
      [] OTHER -> field

\* The export read back: one record a line, over the columns of the header.
ReadExport(csv) ==
    [i \in 1..Len(csv.lines) |->
        [c \in Range(csv.header) |->
            ReadField(c, csv.lines[i][CHOOSE j \in 1..Len(csv.header) : csv.header[j] = c])]]

\* The rows of the run's table the chosen segment selects.
SelectedRows(frame, selected_segment) ==
    IF selected_segment = "all" THEN frame.rows
    ELSE SelectSeq(frame.rows, LAMBDA r : r.segment = selected_segment)

\* The export has, line by line, the values of `columns` in `rows`.
Reproduces(csv, rows, columns) ==
    /\ Len(csv.lines) = Len(rows)
    /\ columns \subseteq Range(csv.header)
    /\ \A i \in 1..Len(rows) : \A c \in columns : ReadExport(csv)[i][c] = rows[i][c]

CsvKey(ss, selected_segment) ==
    <<ss.pipeline_key,
      IF selected_segment = "all" THEN "all" ELSE LowerUnderscore(selected_segment)>>

FileCleared ==
    /\ run.kind # "none"
    /\ session_state.data_mode = "uploaded"
    /\ uploaded = None

\* C13: once a file was uploaded and the uploader is cleared, some later run
\* with no file in the uploader takes the sample path and returns the
\* prepared sample.
C13_ClearReturnsToSample ==
    FileCleared ~> (uploaded = None /\ run.path = "sample" /\ run.kind = "return")

\* data_mode, once "uploaded", stays "uploaded": no line of the code sets it
\* back, and the sample path (line 73) asks for "sample".
C13_UploadedForGood ==
    [][session_state.data_mode = "uploaded" =>
          session_state'.data_mode = "uploaded" /\ run'.path # "sample"]_vars

\* ---- the ready path ----

\* An import has succeeded and its dataset is stored.
Ready == session_state.uploaded_ready /\ session_state.raw_df # None

\* The file is the one the stored dataset was imported from: read and
\* prepared under the mapping kept in raw_key, it gives raw_df.
StoredFile(ss, file) ==
    /\ ss.raw_key # None /\ ss.raw_key[1] = "uploaded"
    /\ \E t \in {_read_uploaded_csv(file.content)} :
          /\ t.kind = "ok" /\ t.value.rows # <<>>
          /\ _prepare_cached(select_rename(t.value, ss.raw_key[3], ss.raw_key[4], ss.raw_key[5]))
                = Returned(ss.raw_df[1])

\* The uploader holds a file other than the one the stored dataset came from.
DifferentFile(ss, file) == file # None /\ ~StoredFile(ss, file[1])

\* While ready, a run that meets no different file returns the stored dataset,
\* draws no mapping UI and does not stop; the run of the click on 'change
\* data / remap' is one of them.
C14_ReadyPathReturns ==
    [][(Ready /\ ~DifferentFile(session_state, uploaded')) =>
          /\ run'.kind = "return" /\ ~run'.mapping_ui
          /\ run'.raw_df = session_state.raw_df]_vars

\* Between a remap click or a new file and the next import that succeeds,
\* every run stops; the only run that returns is a click on 'import' whose
\* preparation succeeds.
C14_StoppedUntilImport ==
    [][(session_state.data_mode = "uploaded" /\ ~session_state.uploaded_ready) =>
          \/ run'.kind = "stop"
          \/ run'.path = "import" /\ session_state'.uploaded_ready]_vars

\* C14: once an import has succeeded, every run returns the stored dataset
\* with no mapping UI and no stop until 'change data / remap' is clicked or a
\* different file is selected; a run that meets a different file shows the
\* mapping UI and stops, and so does every run after it or after a remap
\* click, until 'import' is clicked with three distinct columns and the
\* preparation succeeds.
C14_ReadyUntilRemap ==
    [][/\ (Ready /\ ~DifferentFile(session_state, uploaded')) =>
              /\ run'.kind = "return" /\ ~run'.mapping_ui
              /\ run'.raw_df = session_state.raw_df
       /\ (Ready /\ DifferentFile(session_state, uploaded')) =>
              run'.kind = "stop" /\ run'.mapping_ui
       /\ (session_state.data_mode = "uploaded" /\ ~session_state.uploaded_ready) =>
              \/ run'.kind = "stop"
              \/ run'.path = "import" /\ session_state'.uploaded_ready]_vars

\* ---- data_version ----

\* The run stored a dataset whose content is not the one stored before it.
DatasetChanged ==
    /\ session_state'.raw_df # None
    /\ session_state'.raw_df # session_state.raw_df

\* C15: a run that stores a raw_df whose content differs from the raw_df
\* stored before it increments data_version, and data_version never
\* decreases.
C15_VersionBumped ==
    [][/\ DatasetChanged => session_state'.data_version = session_state.data_version + 1
       /\ session_state'.data_version >= session_state.data_version]_vars

\* data_version moves with raw_key, by one, and never down: a dataset that
\* changes under an unchanged raw_key (name, size, mapping, height, width)
\* leaves it where it was.
C15_VersionFollowsKey ==
    [][/\ session_state'.data_version >= session_state.data_version
       /\ session_state'.raw_key # session_state.raw_key
             <=> session_state'.data_version = session_state.data_version + 1
       /\ session_state'.raw_key = session_state.raw_key
             <=> session_state'.data_version = session_state.data_version]_vars

\* ---- the cached scored table ----

\* The table of the run is the one the pipeline gives for the dataset of the
\* run, under the run's remove_outliers.
FreshRfm ==
    \E order \in GroupOrders(PipelineInput(run.raw_df[1], session_state.remove_outliers)) :
        run.rfm[1] = WithSegment(to_pandas(RfmColumns,
                        rfm_scoring(rfm_transformation(
                            PipelineInput(run.raw_df[1], session_state.remove_outliers),
                            order))))

\* C16: in every run that gets past sidebar_import, the rfm table used for
\* display and export is rfm_scoring(rfm_transformation(d)) of the raw_df d
\* returned in that run, outlier-filtered exactly when remove_outliers is set:
\* a hit on pipeline_key never serves a table computed from other data.
C16_ScoredTableNeverStale ==
    run.kind = "return" => FreshRfm

====
